---- MODULE Spec2Model ----
(***************************************************************************)
(* A model of the rust-text-editor document engine (src/src/editor.rs):    *)
(* the row buffer and its edit operations, the incremental propagation of  *)
(* the per-row highlight state, load/save, and the decoder that turns the  *)
(* raw input bytes into keys.                                              *)
(*                                                                         *)
(* Rows are 1-indexed sequences here; the cursor keeps the 0-based x and y *)
(* of the code, so row y of the code is rows[y + 1].                       *)
(***************************************************************************)
EXTENDS Integers, Sequences, FiniteSets, TLC

VARIABLES
    phase,      \* "new" after Editor::new, "loaded" once the document exists,
                \* "failed" when load returned an error and the start is given up
    rows,       \* Editor.rows: sequence of [chars, hl_state]
    cursor,     \* Editor.cursor: [x, y] (byte index, row index; 0-based)
    n_bytes,    \* Editor.n_bytes
    dirty,      \* Editor.dirty
    file_name,  \* Editor.file_name.is_some()
    status_msg, \* Editor.status_msg: which message the status bar holds
    op,         \* the operation that produced this state:
                \* [name, byte, err, path, akey]
    upd,        \* the last update_row(y, false) call of that operation
    steps,      \* number of operations applied since the document was loaded
    input,      \* the bytes of the file given to load (load/save round trip)
    written,    \* the bytes written by the last save (load/save round trip)
    stream,     \* the results of the reads of stdin still to come
    consumed,   \* the read results the current iteration of the loop has
                \* had; once the call has returned, those of the iteration
                \* that returned
    key,        \* what loop_until_keypress returned, until the caller calls
                \* it again (NoKey while a call is under way)
    roff,       \* CursorState.roff, the first row shown
    coff,       \* CursorState.coff, the first column shown
    arg,        \* the arguments of the last call of scroll or format_size
    out,        \* what the last call of format_size returned: its text, or
                \* that it panicked; and whether its arithmetic overflowed
    wsc,        \* WSC, the flag a window size change notification sets
    pc,         \* where the main thread is in loop_until_keypress
    term_rows,  \* the number of rows of the terminal window
    editor_screen_rows, \* Editor.screen_rows
    drawn_rows  \* the screen_rows the last refresh_screen drew the screen for

edVars == <<phase, rows, cursor, n_bytes, dirty, file_name, status_msg, op,
           upd, steps>>
ioVars == <<input, written>>
keyVars == <<stream, consumed, key>>
fnVars == <<roff, coff, arg, out>>
wsVars == <<wsc, pc, term_rows, editor_screen_rows, drawn_rows>>
vars == <<edVars, ioVars, keyVars, fnVars, wsVars>>

-----------------------------------------------------------------------------
(* Bounds of the model.                                                    *)

\* Longest file the editor specification loads before editing.
MaxFile == 3
\* Number of operations applied to a loaded document.
MaxOps == 3
\* Longest file of the load/save round trip.
MaxInput == 4
\* Number of unconstrained read results that follow each prefix of the
\* input streams given to the decoder.
MaxTail == 2
\* Largest row, column, offset and screen size given to scroll.
MaxCoord == 3
\* Largest number of rows of the terminal window.
MaxWindow == 4

-----------------------------------------------------------------------------
(* Bytes.                                                                  *)

\* b'\n', the line terminator load splits on and save joins with.
NL == 10
\* The delimiters of a multi-line comment in the syntax configuration used
\* here (Pascal-like: one byte each).
MlOpen == 123
MlClose == 125

ml_comment_start == <<MlOpen>>
ml_comment_end == <<MlClose>>

\* The bytes an insert_byte of the model types.
\* 97 ('a') is an ordinary byte of text.
EditBytes == {97, MlOpen, MlClose}
\* The bytes of the files the model loads.
FileBytes == EditBytes \cup {NL}

\* usize::MAX as move_cursor uses it: a column beyond the end of any row.
UsizeMax == 2147483647

RECURSIVE SeqsUpTo(_, _)
SeqsUpTo(S, n) ==
    IF n = 0 THEN {<<>>}
    ELSE LET shorter == SeqsUpTo(S, n - 1)
         IN  shorter \cup {Append(s, b) : s \in shorter, b \in S}

Min(a, b) == IF a < b THEN a ELSE b

-----------------------------------------------------------------------------
(* Row and the highlight state machine.                                    *)

Normal == "Normal"
MultiLineComment == "MultiLineComment"
HlStates == {Normal, MultiLineComment}

\* Row::new(chars): the bytes, with the default highlight state.
NewRow(chars) == [chars |-> chars, hl_state |-> Normal]

\* Whether `s` occurs in `line` at (1-based) index i.
FindStr(line, i, s) ==
    /\ i + Len(s) - 1 <= Len(line)
    /\ SubSeq(line, i, i + Len(s) - 1) = s

\* The state the scan of `line` from index i leaves, entered in state st.
RECURSIVE ScanFrom(_, _, _)
ScanFrom(line, i, st) ==
    IF i > Len(line) THEN st
    ELSE IF st = MultiLineComment
         THEN IF FindStr(line, i, ml_comment_end)
              THEN ScanFrom(line, i + Len(ml_comment_end), Normal)
              ELSE ScanFrom(line, i + 1, st)
         ELSE IF FindStr(line, i, ml_comment_start)
              THEN ScanFrom(line, i + Len(ml_comment_start), MultiLineComment)
              ELSE ScanFrom(line, i + 1, st)

\* Row::update(syntax, hl_state, tab_stop): the outgoing highlight state of a
\* row with these bytes, entered in state hl_in.
RowUpdate(chars, hl_in) == ScanFrom(chars, 1, hl_in)

\* Row::get_char_size: the bytes of the model are all one-byte characters.
GetCharSize(chars, x) == 1

-----------------------------------------------------------------------------
(* Sequence helpers that stand for the Vec methods the code calls.         *)

\* Vec::insert(i, e), i 0-based.
InsertAt(s, i, e) == SubSeq(s, 1, i) \o <<e>> \o SubSeq(s, i + 1, Len(s))
\* Vec::remove(i), i 0-based: the sequence without that element.
RemoveAt(s, i) == SubSeq(s, 1, i) \o SubSeq(s, i + 2, Len(s))

RECURSIVE SumLens(_)
SumLens(rs) ==
    IF rs = <<>> THEN 0 ELSE Len(rs[1].chars) + SumLens(Tail(rs))

HlOf(rs) == [j \in 1..Len(rs) |-> rs[j].hl_state]

-----------------------------------------------------------------------------
(* update_row and update_all_rows.                                         *)

\* update_row that never stops at an unchanged row: what the loop would do
\* without its test of the previous state.
RECURSIVE UpdateFrom_NoStop(_, _, _, _, _)
UpdateFrom_NoStop(rs, j, hl, ignore_following_rows, n) ==
    IF j > Len(rs) THEN [rows |-> rs, n |-> n]
    ELSE LET hl_state == RowUpdate(rs[j].chars, hl)
             rs2 == [rs EXCEPT ![j].hl_state = hl_state]
         IN  IF ignore_following_rows
             THEN [rows |-> rs2, n |-> n + 1]
             ELSE UpdateFrom_NoStop(rs2, j + 1, hl_state, ignore_following_rows, n + 1)

\* The loop of update_row over rows j, j+1, ... (1-based), hl the state
\* leaving the row before; n counts the rows re-highlighted so far.
RECURSIVE UpdateFrom(_, _, _, _, _)
UpdateFrom(rs, j, hl, ignore_following_rows, n) ==
    IF j > Len(rs) THEN [rows |-> rs, n |-> n]
    ELSE LET previous_hl_state == rs[j].hl_state
             hl_state == RowUpdate(rs[j].chars, hl)
             rs2 == [rs EXCEPT ![j].hl_state = hl_state]
         IN  IF ignore_following_rows \/ hl_state = previous_hl_state
             THEN [rows |-> rs2, n |-> n + 1]
             ELSE UpdateFrom(rs2, j + 1, hl_state, ignore_following_rows, n + 1)

\* update_row(y, ignore_following_rows), y 0-based: the rows afterwards and
\* the number of rows it re-highlighted.
UpdateRow(rs, y, ignore_following_rows) ==
    UpdateFrom(rs, y + 1, IF y > 0 THEN rs[y].hl_state ELSE Normal,
               ignore_following_rows, 0)

RECURSIVE UpdateAllFrom(_, _, _)
UpdateAllFrom(rs, j, hl) ==
    IF j > Len(rs) THEN rs
    ELSE LET hl_state == RowUpdate(rs[j].chars, hl)
         IN  UpdateAllFrom([rs EXCEPT ![j].hl_state = hl_state], j + 1, hl_state)

\* update_all_rows.
UpdateAllRows(rs) == UpdateAllFrom(rs, 1, Normal)

-----------------------------------------------------------------------------
(* CursorState::scroll.                                                    *)

\* usize::saturating_sub
SaturatingSub(a, b) == IF a >= b THEN a - b ELSE 0

\* Ord::clamp(min, max), called with min <= max
Clamp(v, min, max) == IF v < min THEN min ELSE IF v > max THEN max ELSE v

\* scroll that keeps a window of one row and one column more than the screen.
ScrollOp_OneTooMany(c, rx, screen_rows, screen_cols) ==
    [c EXCEPT !.roff = Clamp(c.roff, SaturatingSub(c.y, screen_rows), c.y),
              !.coff = Clamp(c.coff, SaturatingSub(rx, screen_cols), rx)]

\* scroll(rx, screen_rows, screen_cols) on the cursor state c = [y, roff, coff]
ScrollOp(c, rx, screen_rows, screen_cols) ==
    [c EXCEPT !.roff = Clamp(c.roff,
                             SaturatingSub(c.y, SaturatingSub(screen_rows, 1)),
                             c.y),
              !.coff = Clamp(c.coff,
                             SaturatingSub(rx, SaturatingSub(screen_cols, 1)),
                             rx)]

-----------------------------------------------------------------------------
(* The resize flag and the steps of loop_until_keypress.                   *)

\* has_window_size_changed: reads the flag and clears it, in one atomic step.
HasWindowSizeChanged(flag) == [changed |-> flag, wsc |-> FALSE]

\* update_window_size: screen_rows, for a terminal of rows_reported rows
\* (two rows are kept for the status bar and the status message).
UpdateWindowSizeOp(rows_reported) == SaturatingSub(rows_reported, 2)

\* The loop that reads a key without handling a window size change.
AfterCheck_NoHandling(changed) == "first"

\* Where the loop goes after the test of the flag: to update_window_size
\* and refresh_screen if it was set, else to the read of the first byte.
AfterCheck(changed) == IF changed THEN "update" ELSE "first"

-----------------------------------------------------------------------------
(* format_size.                                                            *)
(*                                                                         *)
(* A u64 does not fit an integer of the model checker, so a u64 n is held  *)
(* as its seven base-1024 digits, least significant first:                 *)
(* n = n[1] + n[2] * 1024 + ... + n[7] * 1024^6, with n[7] < 16 since      *)
(* 2^64 = 16 * 1024^6.                                                     *)

\* The value of the digits ds, for values that fit an integer of the model.
RECURSIVE ToInt(_)
ToInt(ds) == IF ds = <<>> THEN 0 ELSE ds[1] + 1024 * ToInt(Tail(ds))

\* The number of bits of v: the least k with v < 2^k.
RECURSIVE BitLen(_)
BitLen(v) == IF v = 0 THEN 0 ELSE 1 + BitLen(v \div 2)

\* The index of the highest digit of n that is not 0, from k down; 0 if none.
RECURSIVE TopDigit(_, _)
TopDigit(n, k) ==
    IF k = 0 THEN 0 ELSE IF n[k] /= 0 THEN k ELSE TopDigit(n, k - 1)

\* u64::leading_zeros
LeadingZeros(n) ==
    LET k == TopDigit(n, 7)
    IN  IF k = 0 THEN 64 ELSE 64 - (10 * (k - 1) + BitLen(n[k]))

\* m * ds + carry in exact arithmetic, m < 1024: one digit more than ds has.
RECURSIVE MulDigits(_, _, _)
MulDigits(m, ds, carry) ==
    IF ds = <<>> THEN <<carry>>
    ELSE LET v == m * ds[1] + carry
         IN  <<v % 1024>> \o MulDigits(m, Tail(ds), v \div 1024)

\* m * n on u64: the product modulo 2^64 and whether it overflowed.
MulU64(m, n) ==
    LET p == MulDigits(m, n, 0)
    IN  [value |-> [k \in 1..7 |-> IF k = 7 THEN p[7] % 16 ELSE p[k]],
         overflow |-> p[7] >= 16 \/ p[8] /= 0]

\* n / (1024 << shift) on u64, for the shifts format_size uses (multiples of
\* 10 up to 50): the digits of n above the lowest shift / 10 + 1.
DivShifted1024(n, shift) == SubSeq(n, shift \div 10 + 2, 7)

\* The characters format! writes for the decimal digit d.
DigitChar(d) == <<"0", "1", "2", "3", "4", "5", "6", "7", "8", "9">>[d + 1]

\* format!("{}", v)
RECURSIVE Dec(_)
Dec(v) == IF v < 10 THEN <<DigitChar(v)>>
          ELSE Dec(v \div 10) \o <<DigitChar(v % 10)>>

\* format!("{:02}", v)
Dec02(v) == IF v < 10 THEN <<"0">> \o Dec(v) ELSE Dec(v)

\* b" kMGTPEZ"
UnitLetters == <<" ", "k", "M", "G", "T", "P", "E", "Z">>

\* format_size(n). `100 * n` panics when it overflows in a build with
\* overflow checks and wraps in a build without them.
FormatSizeOp(n, overflow_checks) ==
    IF TopDigit(n, 7) <= 1
    THEN [called |-> TRUE, panic |-> FALSE, overflow |-> FALSE,
          text |-> Dec(n[1]) \o <<"B">>]
    ELSE LET i == (64 - LeadingZeros(n) + 9) \div 10 - 1
             product == MulU64(100, n)
             q == ToInt(DivShifted1024(product.value, (i - 1) * 10))
         IN  IF product.overflow /\ overflow_checks
             THEN [called |-> TRUE, panic |-> TRUE, overflow |-> TRUE,
                   text |-> <<>>]
             ELSE [called |-> TRUE, panic |-> FALSE,
                   overflow |-> product.overflow,
                   text |-> Dec(q \div 100) \o <<".">> \o Dec02(q % 100)
                                \o <<UnitLetters[i + 1], "B">>]

-----------------------------------------------------------------------------
(* The editor as a record, so that one operation can call another.         *)

\* The status messages the model tells apart: the help message of
\* Editor::new, and the two of save_and_handle_io_errors.
HelpMessage == "HELP"
WrittenMessage == "written to"
CantSaveMessage == "Can't save! I/O error"

NoUpd == [called |-> FALSE, y |-> 0, n |-> 0, before |-> <<>>]

\* err is whether the operation failed (load returned an error, save did
\* not write the file), path the kind of path a load was given, akey the
\* key a move_cursor was given.
Ed == [rows |-> rows, cursor |-> cursor, n_bytes |-> n_bytes, dirty |-> dirty,
       file_name |-> file_name, status_msg |-> status_msg, upd |-> NoUpd,
       err |-> FALSE, path |-> "none", akey |-> "none"]

\* e after update_row(y, false), with the call recorded.
WithUpdateRow(e, y) ==
    LET r == UpdateRow(e.rows, y, FALSE)
    IN  [e EXCEPT !.rows = r.rows,
                  !.upd = [called |-> TRUE, y |-> y, n |-> r.n,
                           before |-> HlOf(e.rows)]]

\* current_row().map_or(0, |row| row.chars.len())
CurrentRowLen(e) ==
    IF e.cursor.y < Len(e.rows) THEN Len(e.rows[e.cursor.y + 1].chars) ELSE 0

\* update_cursor_x_position that leaves the column as it is.
UpdateCursorXPosition_Keep(e) == e

\* update_cursor_x_position
UpdateCursorXPosition(e) ==
    [e EXCEPT !.cursor.x = Min(e.cursor.x, CurrentRowLen(e))]

\* CursorState::move_to_next_line
MoveToNextLine(e) == [e EXCEPT !.cursor = [x |-> 0, y |-> e.cursor.y + 1]]

\* move_cursor that stays at the end of a row on a Right key.
MoveCursorOp_NoWrapRight(e, akey) ==
    LET x == e.cursor.x
        y == e.cursor.y
        has_row == y < Len(e.rows)
        chars == e.rows[y + 1].chars
        moved ==
            IF akey = "Left" /\ has_row /\ x > 0
                THEN [e EXCEPT !.cursor.x = x - GetCharSize(chars, x - 1)]
            ELSE IF akey = "Left" /\ y > 0
                THEN [e EXCEPT !.cursor = [x |-> UsizeMax, y |-> y - 1]]
            ELSE IF akey = "Right" /\ has_row /\ x < Len(chars)
                THEN [e EXCEPT !.cursor.x = x + GetCharSize(chars, x)]
            ELSE IF akey = "Right" /\ has_row
                THEN e
            ELSE IF akey = "Up" /\ y > 0
                THEN [e EXCEPT !.cursor.y = y - 1]
            ELSE IF akey = "Down" /\ has_row
                THEN [e EXCEPT !.cursor.y = y + 1]
            ELSE e
    IN  UpdateCursorXPosition(moved)

\* move_cursor(key)
MoveCursorOp(e, akey) ==
    LET x == e.cursor.x
        y == e.cursor.y
        has_row == y < Len(e.rows)
        chars == e.rows[y + 1].chars
        moved ==
            IF akey = "Left" /\ has_row /\ x > 0
                THEN [e EXCEPT !.cursor.x = x - GetCharSize(chars, x - 1)]
            ELSE IF akey = "Left" /\ y > 0
                THEN [e EXCEPT !.cursor = [x |-> UsizeMax, y |-> y - 1]]
            ELSE IF akey = "Right" /\ has_row /\ x < Len(chars)
                THEN [e EXCEPT !.cursor.x = x + GetCharSize(chars, x)]
            ELSE IF akey = "Right" /\ has_row
                THEN MoveToNextLine(e)
            ELSE IF akey = "Up" /\ y > 0
                THEN [e EXCEPT !.cursor.y = y - 1]
            ELSE IF akey = "Down" /\ has_row
                THEN [e EXCEPT !.cursor.y = y + 1]
            ELSE e
    IN  UpdateCursorXPosition(moved)

\* is_empty
IsEmpty(e) == Len(e.rows) <= 1 /\ e.n_bytes = 0

\* insert_byte that pushes the byte at the end of the row instead of
\* inserting it at the cursor.
InsertByteOp_Push(e, c) ==
    LET x == e.cursor.x
        y == e.cursor.y
        e1 == IF y < Len(e.rows)
              THEN [e EXCEPT !.rows[y + 1].chars = Append(@, c)]
              ELSE [e EXCEPT !.rows = Append(@, NewRow(<<c>>))]
        e2 == WithUpdateRow(e1, y)
    IN  [e2 EXCEPT !.cursor.x = x + 1, !.n_bytes = @ + 1, !.dirty = TRUE]

\* insert_byte(c)
InsertByteOp(e, c) ==
    LET x == e.cursor.x
        y == e.cursor.y
        e1 == IF y < Len(e.rows)
              THEN [e EXCEPT !.rows[y + 1].chars = InsertAt(@, x, c)]
              ELSE [e EXCEPT !.rows = Append(@, NewRow(<<c>>))]
        e2 == WithUpdateRow(e1, y)
    IN  [e2 EXCEPT !.cursor.x = x + 1, !.n_bytes = @ + 1, !.dirty = TRUE]

\* insert_new_line that always inserts the new row after the current one,
\* at the start of a row too.
InsertNewLineOp_AlwaysAfter(e) ==
    LET x == e.cursor.x
        y == e.cursor.y
        chars == e.rows[y + 1].chars
        e1 == IF x = 0 THEN e
              ELSE WithUpdateRow(
                       [e EXCEPT !.rows[y + 1].chars = SubSeq(chars, 1, x)], y)
        position == IF y < Len(e.rows) THEN y + 1 ELSE y
        new_row_chars == IF x = 0 THEN <<>> ELSE SubSeq(chars, x + 1, Len(chars))
        e2 == [e1 EXCEPT !.rows = InsertAt(@, position, NewRow(new_row_chars))]
        e3 == WithUpdateRow(e2, position)
    IN  [MoveToNextLine(e3) EXCEPT !.dirty = TRUE]

\* insert_new_line that moves the cursor to the start of the row it inserted.
InsertNewLineOp_CursorOnInserted(e) ==
    LET x == e.cursor.x
        y == e.cursor.y
        chars == e.rows[y + 1].chars
        e1 == IF x = 0 THEN e
              ELSE WithUpdateRow(
                       [e EXCEPT !.rows[y + 1].chars = SubSeq(chars, 1, x)], y)
        position == IF x = 0 THEN y ELSE y + 1
        new_row_chars == IF x = 0 THEN <<>> ELSE SubSeq(chars, x + 1, Len(chars))
        e2 == [e1 EXCEPT !.rows = InsertAt(@, position, NewRow(new_row_chars))]
        e3 == WithUpdateRow(e2, position)
    IN  [e3 EXCEPT !.cursor = [x |-> 0, y |-> position], !.dirty = TRUE]

\* insert_new_line
InsertNewLineOp(e) ==
    LET x == e.cursor.x
        y == e.cursor.y
        chars == e.rows[y + 1].chars
        e1 == IF x = 0 THEN e
              ELSE WithUpdateRow(
                       [e EXCEPT !.rows[y + 1].chars = SubSeq(chars, 1, x)], y)
        position == IF x = 0 THEN y ELSE y + 1
        new_row_chars == IF x = 0 THEN <<>> ELSE SubSeq(chars, x + 1, Len(chars))
        e2 == [e1 EXCEPT !.rows = InsertAt(@, position, NewRow(new_row_chars))]
        e3 == WithUpdateRow(e2, position)
    IN  [MoveToNextLine(e3) EXCEPT !.dirty = TRUE]

\* delete_char that merges a row in front of the previous row instead of
\* behind it.
DeleteCharOp_MergeInFront(e) ==
    LET x == e.cursor.x
        y == e.cursor.y
    IN  IF x > 0
        THEN LET chars == e.rows[y + 1].chars
                 n_bytes_to_remove == GetCharSize(chars, x - 1)
                 e1 == [e EXCEPT !.rows[y + 1].chars =
                            SubSeq(chars, 1, x - n_bytes_to_remove)
                                \o SubSeq(chars, x + 1, Len(chars))]
                 e2 == WithUpdateRow(e1, y)
                 e3 == [e2 EXCEPT !.cursor.x = x - n_bytes_to_remove]
                 e4 == [e3 EXCEPT !.dirty =
                            IF IsEmpty(e3) THEN e3.file_name ELSE TRUE]
             IN  [e4 EXCEPT !.n_bytes = @ - n_bytes_to_remove]
        ELSE IF y < Len(e.rows) /\ y > 0
        THEN LET row == e.rows[y + 1]
                 removed == RemoveAt(e.rows, y)
                 previous_len == Len(removed[y].chars)
                 e1 == [e EXCEPT !.rows = [removed EXCEPT ![y].chars = row.chars \o @],
                                 !.cursor.x = previous_len]
                 e2 == [e1 EXCEPT !.rows = UpdateRow(e1.rows, y - 1, TRUE).rows]
                 e3 == WithUpdateRow(e2, y)
             IN  [e3 EXCEPT !.dirty = TRUE, !.cursor.y = y - 1]
        ELSE IF y = Len(e.rows)
        THEN MoveCursorOp(e, "Left")
        ELSE e

\* delete_char that, past the last row, moves the cursor as an Up key would.
DeleteCharOp_UpPastLastRow(e) ==
    LET x == e.cursor.x
        y == e.cursor.y
    IN  IF x > 0
        THEN LET chars == e.rows[y + 1].chars
                 n_bytes_to_remove == GetCharSize(chars, x - 1)
                 e1 == [e EXCEPT !.rows[y + 1].chars =
                            SubSeq(chars, 1, x - n_bytes_to_remove)
                                \o SubSeq(chars, x + 1, Len(chars))]
                 e2 == WithUpdateRow(e1, y)
                 e3 == [e2 EXCEPT !.cursor.x = x - n_bytes_to_remove]
                 \* is_empty() is evaluated before n_bytes is decremented
                 e4 == [e3 EXCEPT !.dirty =
                            IF IsEmpty(e3) THEN e3.file_name ELSE TRUE]
             IN  [e4 EXCEPT !.n_bytes = @ - n_bytes_to_remove]
        ELSE IF y < Len(e.rows) /\ y > 0
        THEN LET row == e.rows[y + 1]
                 removed == RemoveAt(e.rows, y)
                 previous_len == Len(removed[y].chars)
                 e1 == [e EXCEPT !.rows = [removed EXCEPT ![y].chars = @ \o row.chars],
                                 !.cursor.x = previous_len]
                 e2 == [e1 EXCEPT !.rows = UpdateRow(e1.rows, y - 1, TRUE).rows]
                 e3 == WithUpdateRow(e2, y)
             IN  [e3 EXCEPT !.dirty = TRUE, !.cursor.y = y - 1]
        ELSE IF y = Len(e.rows)
        THEN MoveCursorOp(e, "Up")
        ELSE e

\* delete_char
DeleteCharOp(e) ==
    LET x == e.cursor.x
        y == e.cursor.y
    IN  IF x > 0
        THEN LET chars == e.rows[y + 1].chars
                 n_bytes_to_remove == GetCharSize(chars, x - 1)
                 e1 == [e EXCEPT !.rows[y + 1].chars =
                            SubSeq(chars, 1, x - n_bytes_to_remove)
                                \o SubSeq(chars, x + 1, Len(chars))]
                 e2 == WithUpdateRow(e1, y)
                 e3 == [e2 EXCEPT !.cursor.x = x - n_bytes_to_remove]
                 \* is_empty() is evaluated before n_bytes is decremented
                 e4 == [e3 EXCEPT !.dirty =
                            IF IsEmpty(e3) THEN e3.file_name ELSE TRUE]
             IN  [e4 EXCEPT !.n_bytes = @ - n_bytes_to_remove]
        ELSE IF y < Len(e.rows) /\ y > 0
        THEN LET row == e.rows[y + 1]
                 removed == RemoveAt(e.rows, y)
                 previous_len == Len(removed[y].chars)
                 e1 == [e EXCEPT !.rows = [removed EXCEPT ![y].chars = @ \o row.chars],
                                 !.cursor.x = previous_len]
                 e2 == [e1 EXCEPT !.rows = UpdateRow(e1.rows, y - 1, TRUE).rows]
                 e3 == WithUpdateRow(e2, y)
             IN  [e3 EXCEPT !.dirty = TRUE, !.cursor.y = y - 1]
        ELSE IF y = Len(e.rows)
        THEN MoveCursorOp(e, "Left")
        ELSE e

\* delete_current_row, acting on the editor it is called on
DeleteCurrentRowOp(e) ==
    LET y == e.cursor.y
    IN  IF y < Len(e.rows)
        THEN DeleteCharOp(MoveToNextLine(
                 WithUpdateRow([e EXCEPT !.rows[y + 1].chars = <<>>], y)))
        ELSE e

\* duplicate_current_row (the field the source spells `dirsty` is dirty)
DuplicateCurrentRowOp(e) ==
    LET y == e.cursor.y
    IN  IF y < Len(e.rows)
        THEN LET new_row == NewRow(e.rows[y + 1].chars)
                 e1 == [e EXCEPT !.n_bytes = @ + Len(new_row.chars),
                                 !.rows = InsertAt(@, y + 1, new_row)]
                 e2 == WithUpdateRow(e1, y + 1)
             IN  [e2 EXCEPT !.dirty = TRUE]
        ELSE e

-----------------------------------------------------------------------------
(* load and save.                                                          *)

\* BufReader::split(b'\n'): the lines of b, a final unterminated line
\* included, no empty line after a final terminator.
RECURSIVE SplitLines(_, _)
SplitLines(b, line) ==
    IF b = <<>> THEN (IF line = <<>> THEN <<>> ELSE <<line>>)
    ELSE IF Head(b) = NL THEN <<line>> \o SplitLines(Tail(b), <<>>)
    ELSE SplitLines(Tail(b), Append(line, Head(b)))

\* load without the read at the end of the file: no trailing row.
LoadOp_NoTrailingRow(e, b) ==
    LET lines == SplitLines(b, <<>>)
        pushed == e.rows \o [j \in 1..Len(lines) |-> NewRow(lines[j])]
        updated == UpdateAllRows(pushed)
    IN  [e EXCEPT !.rows = updated, !.n_bytes = SumLens(updated),
                  !.path = "file"]

\* file.bytes().next() on a file of bytes b positioned at offset pos: the
\* byte there, or nothing at the end of the file (an Option, as a sequence
\* of at most one byte).
NextByteAt(b, pos) == IF pos < Len(b) THEN <<b[pos + 1]>> ELSE <<>>

\* file.seek(io::SeekFrom::End(0)): the offset of the end of the file.
SeekEnd0(b) == Len(b)

\* load, for a path that names a readable regular file holding bytes b.
LoadOp(e, b) ==
    LET lines == SplitLines(b, <<>>)
        pushed == e.rows \o [j \in 1..Len(lines) |-> NewRow(lines[j])]
        \* the file is reopened and read from its end: map_or(true, ..) on
        \* the byte found there
        last == NextByteAt(b, SeekEnd0(b))
        with_last == IF last = <<>> \/ last[1] = NL
                     THEN Append(pushed, NewRow(<<>>))
                     ELSE pushed
        updated == UpdateAllRows(with_last)
    IN  [e EXCEPT !.rows = updated, !.n_bytes = SumLens(updated),
                  !.path = "file"]

\* The lines of b that a line terminator ends: what the split of load has
\* yielded when a read fails after the bytes b.
CompleteLines(b) ==
    LET lines == SplitLines(b, <<>>)
    IN  IF b = <<>> \/ b[Len(b)] = NL THEN lines
        ELSE SubSeq(lines, 1, Len(lines) - 1)

\* The kinds of path load is given, by the first call that does not succeed
\* on them:
\*   "missing"      fs::metadata fails with NotFound: nothing is at the path
\*   "stat_error"   fs::metadata fails with another error
\*   "not_a_file"   the path names neither a regular file nor a symlink
\*   "vanished"     File::open fails with NotFound (the file was removed
\*                  after the metadata call)
\*   "open_error"   File::open fails with another error
\*   "read_error"   a read of the split fails, after the bytes of the path
\*   "reopen_error" the second File::open, the seek or the read of the last
\*                  byte fails
\*   "file"         every call succeeds; the file holds the bytes of the path
PathKinds ==
    {"missing", "stat_error", "not_a_file", "vanished", "open_error",
     "read_error", "reopen_error", "file"}

\* load(path), path a record [kind, bytes]
LoadPathOp(e, path) ==
    LET failed == [e EXCEPT !.err = TRUE, !.path = path.kind]
        lines == IF path.kind = "read_error" THEN CompleteLines(path.bytes)
                 ELSE SplitLines(path.bytes, <<>>)
        pushed == e.rows \o [j \in 1..Len(lines) |-> NewRow(lines[j])]
    IN  CASE path.kind \in {"missing", "stat_error"} -> failed
          [] path.kind = "not_a_file" -> failed
          [] path.kind = "vanished" ->
                 [e EXCEPT !.rows = Append(@, NewRow(<<>>)), !.path = path.kind]
          [] path.kind = "open_error" -> failed
          [] path.kind \in {"read_error", "reopen_error"} ->
                 [failed EXCEPT !.rows = pushed]
          [] OTHER -> LoadOp(e, path.bytes)

\* The editor started on a path: load; if it returns an error the start is
\* given up, else the file name is kept.
RunOnPathOp(e, path) ==
    LET loaded == LoadPathOp(e, path)
    IN  IF loaded.err THEN loaded ELSE [loaded EXCEPT !.file_name = TRUE]

\* The editor started on a file: load, then the file name is kept.
RunOnFileOp(e, b) == [LoadOp(e, b) EXCEPT !.file_name = TRUE]

\* The editor started without a file: one empty row and no file name.
RunWithoutFileOp(e) ==
    [e EXCEPT !.rows = Append(@, NewRow(<<>>)), !.file_name = FALSE]

\* save: the bytes written to the file.
RECURSIVE SaveFrom(_, _)
SaveFrom(rs, i) ==
    IF i > Len(rs) THEN <<>>
    ELSE rs[i].chars \o (IF i /= Len(rs) THEN <<NL>> ELSE <<>>) \o SaveFrom(rs, i + 1)

SaveBytes(rs) == SaveFrom(rs, 1)

\* save_and_handle_io_errors that clears dirty whatever save returned.
SaveAndHandleIoErrorsOp_AlwaysClean(e, saved_ok) ==
    [e EXCEPT !.status_msg = IF saved_ok THEN WrittenMessage ELSE CantSaveMessage,
              !.dirty = FALSE,
              !.err = ~saved_ok]

\* save_and_handle_io_errors: saved_ok is whether save returned Ok
\* (dirty &= saved.is_err()); it returns saved.is_ok().
SaveAndHandleIoErrorsOp(e, saved_ok) ==
    [e EXCEPT !.status_msg = IF saved_ok THEN WrittenMessage ELSE CantSaveMessage,
              !.dirty = e.dirty /\ ~saved_ok,
              !.err = ~saved_ok]

-----------------------------------------------------------------------------
(* The input decoder, loop_until_keypress.                                 *)

ESC == 27
LBracket == 91
BigO == 79
ChA == 65
ChB == 66
ChC == 67
ChD == 68
ChF == 70
ChH == 72
Digit0 == 48
Digit1 == 49
Digit3 == 51
Digit4 == 52
Digit5 == 53
Digit6 == 54
Digit7 == 55
Digit8 == 56
Semicolon == 59
Tilde == 126
SmallA == 97
SmallB == 98
SmallC == 99
SmallD == 100

\* The result of a read of stdin that returned no byte (Ok(None)), and of
\* one that failed (Err); every other read result is the byte read.
NoByte == 256
ReadError == 257

\* Key, as a record: kind, and the arrow or page direction or the byte.
MkKey(kind, akey, byte) == [kind |-> kind, akey |-> akey, byte |-> byte]
Arrow(akey) == MkKey("Arrow", akey, 0)
CtrlArrow(akey) == MkKey("CtrlArrow", akey, 0)
Page(pkey) == MkKey("Page", pkey, 0)
Home == MkKey("Home", "", 0)
End == MkKey("End", "", 0)
Delete == MkKey("Delete", "", 0)
Escape == MkKey("Escape", "", 0)
Char(b) == MkKey("Char", "", b)
\* Err(..), returned when a read fails.
KeyError == MkKey("Error", "", 0)
\* Err(..), returned when update_window_size or refresh_screen fails.
ResizeError == MkKey("Error", "resize", 0)
\* No call has returned yet.
NoKey == MkKey("None", "", 0)

\* bytes.next().transpose(): the i-th read result of s; past the end of
\* what is known of the input no byte is available.
ReadAt(s, i) == IF i <= Len(s) THEN s[i] ELSE NoByte

\* A call's result: the key, the index of the last read the call made
\* (reads), the number of read results of s it used (n), and the index at
\* which the iteration that returned started (first, set by the loop).
Returned(k, s, i) ==
    [key |-> k, n |-> Min(i, Len(s)), first |-> 0, reads |-> i]

\* The match on (c, d) with the keys of 5~ and 6~ exchanged.
DigitKey_PagesSwapped(c, d) ==
    IF d = Tilde /\ (c = Digit1 \/ c = Digit7) THEN Home
    ELSE IF d = Tilde /\ (c = Digit4 \/ c = Digit8) THEN End
    ELSE IF c = Digit3 /\ d = Tilde THEN Delete
    ELSE IF c = Digit5 /\ d = Tilde THEN Page("Down")
    ELSE IF c = Digit6 /\ d = Tilde THEN Page("Up")
    ELSE IF c = Digit5 /\ d = ChA THEN CtrlArrow("Up")
    ELSE IF c = Digit5 /\ d = ChB THEN CtrlArrow("Down")
    ELSE IF c = Digit5 /\ d = ChC THEN CtrlArrow("Right")
    ELSE IF c = Digit5 /\ d = ChD THEN CtrlArrow("Left")
    ELSE Escape

\* match (c, d) of the arm for ESC [ <digit>.
DigitKey(c, d) ==
    IF d = Tilde /\ (c = Digit1 \/ c = Digit7) THEN Home
    ELSE IF d = Tilde /\ (c = Digit4 \/ c = Digit8) THEN End
    ELSE IF c = Digit3 /\ d = Tilde THEN Delete
    ELSE IF c = Digit5 /\ d = Tilde THEN Page("Up")
    ELSE IF c = Digit6 /\ d = Tilde THEN Page("Down")
    ELSE IF c = Digit5 /\ d = ChA THEN CtrlArrow("Up")
    ELSE IF c = Digit5 /\ d = ChB THEN CtrlArrow("Down")
    ELSE IF c = Digit5 /\ d = ChC THEN CtrlArrow("Right")
    ELSE IF c = Digit5 /\ d = ChD THEN CtrlArrow("Left")
    ELSE Escape

\* The digit arm taking any digit before ';' for the default modifier.
DigitArm_AnyDigit(s, i, c) ==
    LET d == ReadAt(s, i + 1)
    IN  IF d = ReadError THEN Returned(KeyError, s, i + 1)
        ELSE IF d = Semicolon
        THEN LET c2 == ReadAt(s, i + 2)
                 d2 == ReadAt(s, i + 3)
             IN  IF c2 = ReadError THEN Returned(KeyError, s, i + 2)
                 ELSE IF d2 = ReadError THEN Returned(KeyError, s, i + 3)
                 ELSE Returned(DigitKey(c2, d2), s, i + 3)
        ELSE Returned(DigitKey(c, d), s, i + 1)

\* The digit arm that, after the prefix "1;", matches the first digit again
\* instead of the digit read after the prefix.
DigitArm_FirstDigitKept(s, i, c) ==
    LET d == ReadAt(s, i + 1)
    IN  IF d = ReadError THEN Returned(KeyError, s, i + 1)
        ELSE IF c = Digit1 /\ d = Semicolon
        THEN LET c2 == ReadAt(s, i + 2)
                 d2 == ReadAt(s, i + 3)
             IN  IF c2 = ReadError THEN Returned(KeyError, s, i + 2)
                 ELSE IF d2 = ReadError THEN Returned(KeyError, s, i + 3)
                 ELSE Returned(DigitKey(c, d2), s, i + 3)
        ELSE Returned(DigitKey(c, d), s, i + 1)

\* The arm for ESC [ c with c in '0'..'8'; c was read at index i.
DigitArm(s, i, c) ==
    LET d == ReadAt(s, i + 1)
    IN  IF d = ReadError THEN Returned(KeyError, s, i + 1)
        ELSE IF c = Digit1 /\ d = Semicolon
        THEN LET c2 == ReadAt(s, i + 2)
                 d2 == ReadAt(s, i + 3)
             IN  IF c2 = ReadError THEN Returned(KeyError, s, i + 2)
                 ELSE IF d2 = ReadError THEN Returned(KeyError, s, i + 3)
                 ELSE Returned(DigitKey(c2, d2), s, i + 3)
        ELSE Returned(DigitKey(c, d), s, i + 1)

\* The match on (b, third byte) with the arrows accepted after 'O' as well.
LetterKey_ArrowsAfterO(b, third) ==
    IF third = ChA THEN Arrow("Up")
    ELSE IF third = ChB THEN Arrow("Down")
    ELSE IF third = ChC THEN Arrow("Right")
    ELSE IF third = ChD THEN Arrow("Left")
    ELSE IF third = ChH THEN Home
    ELSE IF third = ChF THEN End
    ELSE IF b = BigO /\ third = SmallA THEN CtrlArrow("Up")
    ELSE IF b = BigO /\ third = SmallB THEN CtrlArrow("Down")
    ELSE IF b = BigO /\ third = SmallC THEN CtrlArrow("Right")
    ELSE IF b = BigO /\ third = SmallD THEN CtrlArrow("Left")
    ELSE Escape

\* match (b, third byte) for b in '[' | 'O', but for the digit arm.
LetterKey(b, third) ==
    IF b = LBracket /\ third = ChA THEN Arrow("Up")
    ELSE IF b = LBracket /\ third = ChB THEN Arrow("Down")
    ELSE IF b = LBracket /\ third = ChC THEN Arrow("Right")
    ELSE IF b = LBracket /\ third = ChD THEN Arrow("Left")
    ELSE IF third = ChH THEN Home
    ELSE IF third = ChF THEN End
    ELSE IF b = BigO /\ third = SmallA THEN CtrlArrow("Up")
    ELSE IF b = BigO /\ third = SmallB THEN CtrlArrow("Down")
    ELSE IF b = BigO /\ third = SmallC THEN CtrlArrow("Right")
    ELSE IF b = BigO /\ third = SmallD THEN CtrlArrow("Left")
    ELSE Escape

\* The arm for ESC, which was read at index i.
EscapeArm(s, i) ==
    LET b == ReadAt(s, i + 1)
        third == ReadAt(s, i + 2)
    IN  IF b = ReadError THEN Returned(KeyError, s, i + 1)
        ELSE IF b = LBracket \/ b = BigO
        THEN IF third = ReadError THEN Returned(KeyError, s, i + 2)
             ELSE IF b = LBracket /\ third >= Digit0 /\ third <= Digit8
             THEN DigitArm(s, i + 2, third)
             ELSE Returned(LetterKey(b, third), s, i + 2)
        ELSE Returned(Escape, s, i + 1)

\* One iteration of the loop on the read results s, its first read at index
\* i: the match on the first byte. The key NoKey stands for `continue`, the
\* iteration whose first read has no byte.
IterationAt(s, i) ==
    LET a == ReadAt(s, i)
    IN  IF a = ReadError THEN [Returned(KeyError, s, i) EXCEPT !.first = i]
        ELSE IF a = ESC THEN [EscapeArm(s, i) EXCEPT !.first = i]
        ELSE IF a /= NoByte THEN [Returned(Char(a), s, i) EXCEPT !.first = i]
        ELSE [Returned(NoKey, s, i) EXCEPT !.first = i]

\* The iterations of loop_until_keypress on the read results s, from index
\* i, the test of the resize flag left aside: an iteration whose first read
\* has no byte starts the loop again.
RECURSIVE LoopFrom(_, _)
LoopFrom(s, i) ==
    LET r == IterationAt(s, i)
    IN  IF r.key = NoKey THEN LoopFrom(s, i + 1) ELSE r

\* Where the loop is after a read, r being the iteration on the n read
\* results it has had so far: in the escape arm when the match goes on to a
\* read it has not had yet, back at the test of the flag on `continue`,
\* ended when the read failed, else returned with a key.
AfterRead(r, n) ==
    IF r.reads > n THEN "escape"
    ELSE IF r.key = NoKey THEN "check"
    ELSE IF r.key = KeyError THEN "ended"
    ELSE "returned"

-----------------------------------------------------------------------------
(* The editor specification: a document is loaded, then edited.            *)

NoWrite == <<-1>>
NoArg == [fn |-> "none"]
NoOut == [called |-> FALSE, panic |-> FALSE, overflow |-> FALSE, text |-> <<>>]

Commit(e, name, byte) ==
    /\ rows' = e.rows
    /\ cursor' = e.cursor
    /\ n_bytes' = e.n_bytes
    /\ dirty' = e.dirty
    /\ file_name' = e.file_name
    /\ status_msg' = e.status_msg
    /\ upd' = e.upd
    /\ op' = [name |-> name, byte |-> byte, err |-> e.err, path |-> e.path,
              akey |-> e.akey]

InitEditor ==
    /\ phase = "new"
    /\ rows = <<>>
    /\ cursor = [x |-> 0, y |-> 0]
    /\ n_bytes = 0
    /\ dirty = FALSE
    /\ file_name = FALSE
    /\ status_msg = HelpMessage
    /\ op = [name |-> "new", byte |-> 0, err |-> FALSE, path |-> "none",
             akey |-> "none"]
    /\ upd = NoUpd
    /\ steps = 0

\* No file has been read or written yet.
InitIo ==
    /\ input = <<>>
    /\ written = NoWrite

\* No key has been asked for yet; the reads still to come are `s`.
InitKey(s) ==
    /\ stream = s
    /\ consumed = <<>>
    /\ key = NoKey

\* No scroll and no format_size call has been made yet.
InitFn ==
    /\ roff = 0
    /\ coff = 0
    /\ arg = NoArg
    /\ out = NoOut

\* Editor::new has taken the size of a terminal of w rows, and the screen
\* was drawn for it; no notification is pending and the main thread is at
\* the start of the loop.
InitWs(w) ==
    /\ wsc = FALSE
    /\ pc = "check"
    /\ term_rows = w
    /\ editor_screen_rows = UpdateWindowSizeOp(w)
    /\ drawn_rows = editor_screen_rows

\* Editor::new has taken the size of a terminal of w rows; the terminal has
\* been resized to w2 rows since, and the notification is pending.
InitResized(w, w2) ==
    /\ wsc = TRUE
    /\ pc = "check"
    /\ term_rows = w2
    /\ editor_screen_rows = UpdateWindowSizeOp(w)
    /\ drawn_rows = editor_screen_rows

Init == InitEditor /\ InitIo /\ InitKey(<<>>) /\ InitFn /\ InitWs(MaxWindow)

\* The editor is started on a file: load, then the file name is kept.
Load ==
    /\ phase = "new"
    /\ \E b \in SeqsUpTo(FileBytes, MaxFile) :
           Commit(RunOnFileOp(Ed, b), "load", 0)
    /\ phase' = "loaded"
    /\ UNCHANGED <<steps, ioVars, keyVars, fnVars, wsVars>>

\* The editor is started without a file: one empty row, no file name.
StartEmpty ==
    /\ phase = "new"
    /\ Commit(RunWithoutFileOp(Ed), "start_empty", 0)
    /\ phase' = "loaded"
    /\ UNCHANGED <<steps, ioVars, keyVars, fnVars, wsVars>>

\* The paths, other than readable regular files, that the editor is started on.
OtherPaths ==
    {[kind |-> k, bytes |-> <<>>] : k \in PathKinds \ {"file"}}
        \cup {[kind |-> k, bytes |-> <<97, NL, MlOpen>>] :
                  k \in {"read_error", "reopen_error"}}

\* The editor is started on a path on which some call of load does not
\* succeed.
LoadPath ==
    /\ phase = "new"
    /\ \E path \in OtherPaths :
           LET e == RunOnPathOp(Ed, path)
           IN  /\ Commit(e, "load", 0)
               /\ phase' = IF e.err THEN "failed" ELSE "loaded"
    /\ UNCHANGED <<steps, ioVars, keyVars, fnVars, wsVars>>

Editing ==
    /\ phase = "loaded"
    /\ steps < MaxOps
    /\ steps' = steps + 1
    /\ UNCHANGED <<phase, ioVars, keyVars, fnVars, wsVars>>

InsertByte ==
    /\ Editing
    /\ \E c \in EditBytes : Commit(InsertByteOp(Ed, c), "insert_byte", c)

InsertNewLine ==
    /\ Editing
    /\ Commit(InsertNewLineOp(Ed), "insert_new_line", 0)

DeleteChar ==
    /\ Editing
    /\ Commit(DeleteCharOp(Ed), "delete_char", 0)

DeleteCurrentRow ==
    /\ Editing
    /\ Commit(DeleteCurrentRowOp(Ed), "delete_current_row", 0)

DuplicateCurrentRow ==
    /\ Editing
    /\ Commit(DuplicateCurrentRowOp(Ed), "duplicate_current_row", 0)

MoveCursor ==
    /\ Editing
    /\ \E akey \in {"Left", "Right", "Up", "Down"} :
           Commit([MoveCursorOp(Ed, akey) EXCEPT !.akey = akey], "move_cursor", 0)

SaveAndHandleIoErrors ==
    /\ Editing
    /\ \E saved_ok \in BOOLEAN :
           Commit(SaveAndHandleIoErrorsOp(Ed, saved_ok), "save", 0)

Next ==
    \/ Load
    \/ StartEmpty
    \/ LoadPath
    \/ InsertByte
    \/ InsertNewLine
    \/ DeleteChar
    \/ DeleteCurrentRow
    \/ DuplicateCurrentRow
    \/ MoveCursor
    \/ SaveAndHandleIoErrors

Spec == Init /\ [][Next]_vars

-----------------------------------------------------------------------------
(* The load/save round trip: a file is loaded and saved, with no edit.     *)

LoadFile ==
    /\ phase = "new"
    /\ \E b \in SeqsUpTo(FileBytes, MaxInput) :
           /\ Commit(RunOnFileOp(Ed, b), "load", 0)
           /\ input' = b
    /\ phase' = "loaded"
    /\ UNCHANGED <<steps, written, keyVars, fnVars, wsVars>>

SaveFile ==
    /\ phase = "loaded"
    /\ written = NoWrite
    /\ Commit(SaveAndHandleIoErrorsOp(Ed, TRUE), "save", 0)
    /\ written' = SaveBytes(rows)
    /\ UNCHANGED <<phase, steps, input, keyVars, fnVars, wsVars>>

NextLoad == LoadFile \/ SaveFile

SpecLoad == Init /\ [][NextLoad]_vars

-----------------------------------------------------------------------------
(* loop_until_keypress, step by step: the test of the resize flag, the     *)
(* handling of a window size change and the reads of a key, one call after *)
(* another, while window size change notifications arrive.                 *)

Digits ==
    {Digit0, Digit1, 50, Digit3, Digit4, Digit5, Digit6, Digit7, Digit8, 57}

\* The read results the input streams are made of: the bytes the decoder
\* tells apart, '9' (57) and 'Z' (90) for the bytes it does not, a read
\* without a byte and a failed read.
Alphabet ==
    {ESC, LBracket, BigO, ChA, ChB, ChC, ChD, ChF, ChH, Semicolon, Tilde,
     SmallA, SmallB, SmallC, SmallD, 90, NoByte, ReadError} \cup Digits

InputStreams ==
    LET prefixes == {<<>>, <<ESC, LBracket>>, <<ESC, BigO>>}
                        \cup {<<ESC, LBracket, c>> : c \in {Digit1, Digit5}}
                        \cup {<<ESC, LBracket, c, Semicolon>> : c \in Digits}
    IN  {p \o t : p \in prefixes, t \in SeqsUpTo(Alphabet, MaxTail)}

\* The variables loop_until_keypress and the notification handler leave
\* alone.
otherVars == <<edVars, ioVars, fnVars>>

WindowRows == 1..MaxWindow

\* bytes.next().transpose() on stdin: the next read result of the input, or
\* no byte once the known input is used up (the read times out).
NextRead == IF stream = <<>> THEN NoByte ELSE Head(stream)
AfterNextRead == IF stream = <<>> THEN stream ELSE Tail(stream)

\* The terminal window is resized and the notification handler sets the flag,
\* wherever the main thread is.
Signal ==
    /\ \E w \in WindowRows : term_rows' = w
    /\ wsc' = TRUE
    /\ UNCHANGED <<pc, editor_screen_rows, drawn_rows>>
    /\ UNCHANGED keyVars
    /\ UNCHANGED otherVars

\* if sys::has_window_size_changed()
Check ==
    /\ pc = "check"
    /\ LET r == HasWindowSizeChanged(wsc)
       IN  /\ wsc' = r.wsc
           /\ pc' = AfterCheck(r.changed)
    /\ UNCHANGED <<term_rows, editor_screen_rows, drawn_rows>>
    /\ UNCHANGED keyVars
    /\ UNCHANGED otherVars

\* self.update_window_size()?: the new size is taken, or the size cannot be
\* obtained and the call returns the error, having read nothing.
UpdateWindowSize ==
    /\ pc = "update"
    /\ \/ /\ editor_screen_rows' = UpdateWindowSizeOp(term_rows)
          /\ pc' = "refresh"
          /\ UNCHANGED key
       \/ /\ pc' = "ended"
          /\ key' = ResizeError
          /\ UNCHANGED editor_screen_rows
    /\ UNCHANGED <<wsc, term_rows, drawn_rows>>
    /\ UNCHANGED <<stream, consumed>>
    /\ UNCHANGED otherVars

\* self.refresh_screen()?
RefreshScreen ==
    /\ pc = "refresh"
    /\ \/ /\ drawn_rows' = editor_screen_rows
          /\ pc' = "first"
          /\ UNCHANGED key
       \/ /\ pc' = "ended"
          /\ key' = ResizeError
          /\ UNCHANGED drawn_rows
    /\ UNCHANGED <<wsc, term_rows, editor_screen_rows>>
    /\ UNCHANGED <<stream, consumed>>
    /\ UNCHANGED otherVars

\* A read of the iteration that has read the results `before` so far: the
\* match goes as far as the results read allow.
ReadByte(before) ==
    LET buf == Append(before, NextRead)
        r == IterationAt(buf, 1)
        next == AfterRead(r, Len(buf))
    IN  /\ consumed' = buf
        /\ stream' = AfterNextRead
        /\ pc' = next
        /\ key' = IF next \in {"returned", "ended"} THEN r.key ELSE key
        /\ UNCHANGED <<wsc, term_rows, editor_screen_rows, drawn_rows>>
        /\ UNCHANGED otherVars

\* The read of the first byte of a key.
ReadFirstByte ==
    /\ pc = "first"
    /\ ReadByte(<<>>)

\* A read of the escape arm.
ReadEscapeByte ==
    /\ pc = "escape"
    /\ ReadByte(consumed)

\* The caller, with the key the loop returned: either the key ends the
\* editor, or the key is applied, the screen is drawn again and
\* loop_until_keypress is called for the next key.
NextCall ==
    /\ pc = "returned"
    /\ \/ /\ pc' = "check"
          /\ key' = NoKey
          /\ consumed' = <<>>
          /\ drawn_rows' = editor_screen_rows
       \/ /\ pc' = "ended"
          /\ UNCHANGED <<key, consumed, drawn_rows>>
    /\ UNCHANGED <<wsc, term_rows, editor_screen_rows, stream>>
    /\ UNCHANGED otherVars

\* The steps of the main thread.
LoopStep ==
    \/ Check
    \/ UpdateWindowSize
    \/ RefreshScreen
    \/ ReadFirstByte
    \/ ReadEscapeByte
    \/ NextCall

\* The calls of the main thread on an input; notifications that arrive
\* while it runs are the matter of the specification of the resize below.
NextKey ==
    \/ Check
    \/ UpdateWindowSize
    \/ RefreshScreen
    \/ ReadFirstByte
    \/ ReadEscapeByte
    \/ NextCall

\* The first call on every input of InputStreams, with no notification
\* pending, or with the notification of a resize to one row less than the
\* terminal had when Editor::new took its size.
InitDecoder ==
    /\ InitEditor /\ InitIo /\ InitFn
    /\ \E s \in InputStreams : InitKey(s)
    /\ \/ InitWs(MaxWindow)
       \/ InitResized(MaxWindow, MaxWindow - 1)

SpecKey == InitDecoder /\ [][NextKey]_vars

\* The inputs of the specification of the resize: no key at all, a key
\* after a read without a byte, the longest escape sequence, and a read that
\* fails inside an escape sequence.
ResizeStreams ==
    { <<>>, <<NoByte, 90>>,
      <<ESC, LBracket, Digit1, Semicolon, Digit5, ChA>>,
      <<ESC, LBracket, ReadError>> }

InitResize ==
    /\ InitEditor /\ InitIo /\ InitFn
    /\ \E s \in ResizeStreams : InitKey(s)
    /\ \E w \in WindowRows : InitWs(w)

NextResize ==
    \/ Signal
    \/ Check
    \/ UpdateWindowSize
    \/ RefreshScreen
    \/ ReadFirstByte
    \/ ReadEscapeByte
    \/ NextCall

\* The main thread keeps running: every call it makes returns (a read
\* returns after at most the timeout of the terminal, with or without a
\* byte), so a step of the loop that can be taken is taken.
SpecResize == InitResize /\ [][NextResize]_vars /\ WF_vars(LoopStep)

-----------------------------------------------------------------------------
(* scroll on its own: calls of scroll on a cursor state.                   *)

Coords == 0..MaxCoord

\* The cursor state scroll reads and writes.
CursorStateOf == [y |-> cursor.y, roff |-> roff, coff |-> coff]

InitScroll ==
    /\ InitIo /\ InitKey(<<>>) /\ InitWs(MaxWindow)
    /\ phase = "new"
    /\ rows = <<>>
    /\ n_bytes = 0
    /\ dirty = FALSE
    /\ file_name = FALSE
    /\ status_msg = HelpMessage
    /\ op = [name |-> "new", byte |-> 0, err |-> FALSE, path |-> "none",
             akey |-> "none"]
    /\ upd = NoUpd
    /\ steps = 0
    /\ cursor \in [x : {0}, y : Coords]
    /\ roff \in Coords
    /\ coff \in Coords
    /\ arg = NoArg
    /\ out = NoOut

Scroll ==
    /\ \E rx \in Coords, screen_rows \in Coords, screen_cols \in Coords :
           LET c == ScrollOp(CursorStateOf, rx, screen_rows, screen_cols)
           IN  /\ roff' = c.roff
               /\ coff' = c.coff
               /\ arg' = [fn |-> "scroll", rx |-> rx,
                          screen_rows |-> screen_rows,
                          screen_cols |-> screen_cols]
    /\ UNCHANGED <<edVars, ioVars, keyVars, out, wsVars>>

NextScroll == Scroll

SpecScroll == InitScroll /\ [][NextScroll]_vars

-----------------------------------------------------------------------------
(* format_size on its own: one call on a size.                             *)

\* The digits the sizes are made of: the least and the greatest digit, the
\* half, and two digits next to a rounding step of the hundredths.
SizeDigits == {0, 1, 512, 1013, 1023}

\* The sizes format_size is called on: every u64 made of these digits.
Sizes == {n \in [1..7 -> SizeDigits \cup {15}] :
             /\ n[7] \in {0, 1, 15}
             /\ \A k \in 1..6 : n[k] \in SizeDigits}

InitSize ==
    /\ InitEditor /\ InitIo /\ InitKey(<<>>) /\ InitWs(MaxWindow)
    /\ roff = 0
    /\ coff = 0
    /\ arg \in {[fn |-> "format_size", n |-> n] : n \in Sizes}
    /\ out = NoOut

FormatSize ==
    /\ ~out.called
    /\ \E overflow_checks \in BOOLEAN :
           out' = FormatSizeOp(arg.n, overflow_checks)
    /\ UNCHANGED <<edVars, ioVars, keyVars, roff, coff, arg, wsVars>>

NextSize == FormatSize

SpecSize == InitSize /\ [][NextSize]_vars

-----------------------------------------------------------------------------
(* Properties of the editor specification.                                 *)

\* C1: in every state reachable from a loaded document by the edit
\* operations, n_bytes is the sum of the byte lengths of all rows.
C1_ByteCountIsSumOfRows ==
    phase = "loaded" => n_bytes = SumLens(rows)

\* C4: after every edit operation each row's stored outgoing highlight state
\* is the one update_all_rows would compute, re-highlighting all rows in row
\* order from Normal.
C4_HighlightIsGloballyConsistent ==
    phase = "loaded" => HlOf(rows) = HlOf(UpdateAllRows(rows))

\* C5: update_row(y, false) re-highlights rows y, y+1, ... in order, each
\* from the new outgoing state of the row before it; every row it
\* re-highlights but the last changed its outgoing state, and the last one
\* either kept the state it held before the call or is the last row of the
\* document; it re-highlights at most rows.len() - y rows and touches no row
\* before y nor after the one it stopped at.
C5_UpdateRowStopsAtFirstUnchanged ==
    upd.called =>
        LET y == upd.y
            n == upd.n
            len == Len(rows)
        IN  /\ Len(upd.before) = len
            /\ n >= 0
            /\ n <= len - y
            /\ (y < len => n >= 1)
            /\ \A j \in 1..len :
                   /\ (j <= y \/ j > y + n) => rows[j].hl_state = upd.before[j]
                   /\ (j > y /\ j <= y + n) =>
                          rows[j].hl_state =
                              RowUpdate(rows[j].chars,
                                        IF j = 1 THEN Normal ELSE rows[j - 1].hl_state)
                   /\ (j > y /\ j < y + n) => rows[j].hl_state /= upd.before[j]
            /\ (n >= 1 /\ y + n < len) => rows[y + n].hl_state = upd.before[y + n]

\* A call that propagated past the edited row and stopped before the last row.
C5_Witness ==
    /\ upd.called
    /\ upd.n >= 2
    /\ upd.y + upd.n < Len(rows)

\* C10: insert_byte(c) with the cursor on an existing row inserts c at byte
\* index x of that row and leaves the bytes of every other row unchanged;
\* with the cursor past the last row it appends a row holding exactly c; in
\* both cases cursor.x advances by one, n_bytes grows by one and dirty is set.
C10_InsertByte ==
    [][op'.name = "insert_byte" =>
        LET x == cursor.x
            y == cursor.y
            c == op'.byte
        IN  /\ cursor' = [x |-> x + 1, y |-> y]
            /\ n_bytes' = n_bytes + 1
            /\ dirty' = TRUE
            /\ IF y < Len(rows)
               THEN /\ Len(rows') = Len(rows)
                    /\ \A j \in 1..Len(rows) :
                           LET old == rows[j].chars
                               new == rows'[j].chars
                           IN  IF j /= y + 1 THEN new = old
                               ELSE /\ Len(new) = Len(old) + 1
                                    /\ new[x + 1] = c
                                    /\ \A i \in 1..Len(old) :
                                           new[IF i <= x THEN i ELSE i + 1] = old[i]
               ELSE /\ y = Len(rows)
                    /\ Len(rows') = Len(rows) + 1
                    /\ rows'[Len(rows')].chars = <<c>>
                    /\ \A j \in 1..Len(rows) : rows'[j].chars = rows[j].chars
    ]_vars

\* The example of the claim: a byte typed at (0, 0) in front of two others.
C10_Witness ==
    /\ op.name = "insert_byte"
    /\ op.byte = MlOpen
    /\ Len(rows) = 2
    /\ rows[1].chars = <<MlOpen, 97, MlClose>>
    /\ rows[2].chars = <<>>
    /\ cursor = [x |-> 1, y |-> 0]
    /\ n_bytes = 3
    /\ dirty

\* C11: delete_char with the cursor at (y, 0), 0 < y < rows.len(), merges
\* row y onto the end of row y-1: one row fewer, the merged row holds the
\* bytes of row y-1 followed by those of row y, every other row keeps its
\* bytes and its order, the cursor is at (y-1, old length of row y-1),
\* n_bytes is unchanged and dirty is true.
C11_DeleteCharMergesRows ==
    [][(op'.name = "delete_char" /\ cursor.x = 0 /\ cursor.y > 0
            /\ cursor.y < Len(rows)) =>
        LET y == cursor.y
        IN  /\ Len(rows') = Len(rows) - 1
            /\ rows'[y].chars = rows[y].chars \o rows[y + 1].chars
            /\ \A j \in 1..Len(rows') :
                   /\ j < y => rows'[j].chars = rows[j].chars
                   /\ j > y => rows'[j].chars = rows[j + 1].chars
            /\ cursor' = [x |-> Len(rows[y].chars), y |-> y - 1]
            /\ n_bytes' = n_bytes
            /\ dirty' = TRUE
    ]_vars

\* Two rows of different bytes merged into one, a row left after them, the
\* cursor at the seam.
C11_Witness ==
    /\ op.name = "delete_char"
    /\ Len(rows) = 2
    /\ rows[1].chars = <<97, MlOpen>>
    /\ cursor = [x |-> 1, y |-> 0]
    /\ upd.y = 1
    /\ n_bytes = 2
    /\ dirty

\* C12: after delete_char with cursor.x > 0, dirty is false if the document
\* is now fully empty (at most one row and no byte in any row) and has no
\* file name, and true in every other case.
C12_DirtyAfterDeleteChar ==
    [][(op'.name = "delete_char" /\ cursor.x > 0) =>
        (dirty' = ~(Len(rows') <= 1 /\ SumLens(rows') = 0 /\ ~file_name'))
    ]_vars

\* C13: in every state reachable by cursor moves and edit operations,
\* cursor.y <= rows.len(), cursor.x is at most the byte length of row
\* cursor.y when that row exists, and cursor.x = 0 when cursor.y = rows.len().
C13_CursorInBounds ==
    /\ cursor.y <= Len(rows)
    /\ cursor.y < Len(rows) => cursor.x <= Len(rows[cursor.y + 1].chars)
    /\ cursor.y = Len(rows) => cursor.x = 0

\* The cursor past the last row after it was moved there from the end of a
\* row that holds bytes.
C13_Witness ==
    /\ op.name = "move_cursor"
    /\ steps = MaxOps
    /\ Len(rows) >= 2
    /\ cursor = [x |-> 0, y |-> Len(rows)]
    /\ Len(rows[Len(rows)].chars) >= 1

\* C14 as stated: rows.len() >= 1 in every reachable state of the editor,
\* from construction onward and after any load and any edit operations.
C14_AlwaysOneRow ==
    Len(rows) >= 1

\* C14, amended: once the document is loaded (load returned Ok, or the
\* editor was started without a file) rows.len() >= 1, whatever edit
\* operations follow, and the document of an editor started without a file
\* or on an empty file is exactly one empty row; the editor Editor::new
\* returns has no row yet.
C14_OneRowOnceLoaded ==
    /\ phase = "loaded" => Len(rows) >= 1
    /\ (op.name \in {"start_empty", "load"} /\ phase = "loaded"
            /\ SumLens(rows) = 0 /\ Len(rows) <= 1)
           => rows = <<NewRow(<<>>)>>
    /\ phase = "new" => rows = <<>>

\* A document brought down to one row by delete operations.
C14_Witness ==
    /\ phase = "loaded"
    /\ op.name \in {"delete_char", "delete_current_row"}
    /\ steps = MaxOps
    /\ Len(rows) = 1
    /\ rows[1].chars = <<>>

\* C16: saving sets dirty to false when, and only when, the write succeeds;
\* when the write fails the rows, the cursor, n_bytes and dirty are all
\* unchanged (a dirty document stays dirty), the failure is reported only as
\* a status message, and the editor keeps running.
C16_SaveAndDirty ==
    [][op'.name = "save" =>
        /\ ~op'.err => (~dirty' /\ status_msg' = WrittenMessage)
        /\ op'.err => /\ rows' = rows
                      /\ cursor' = cursor
                      /\ n_bytes' = n_bytes
                      /\ dirty' = dirty
                      /\ file_name' = file_name
                      /\ status_msg' = CantSaveMessage
        /\ phase' = "loaded"
    ]_vars

\* A failed save of a document with unsaved edits: still dirty, and the
\* status bar says so.
C16_Witness ==
    /\ op.name = "save"
    /\ op.err
    /\ dirty
    /\ n_bytes >= 1
    /\ status_msg = CantSaveMessage
    /\ phase = "loaded"

\* C17: loading a path that does not exist is not an error: load returns Ok
\* and leaves exactly one empty row; every other load failure (wrong file
\* type, open or read error) is returned as an error.
C17_MissingPathIsNotAnError ==
    op.name = "load" =>
        /\ op.path \in {"missing", "vanished"} =>
               (~op.err /\ rows = <<NewRow(<<>>)>>)
        /\ op.path \in {"stat_error", "not_a_file", "open_error",
                         "read_error", "reopen_error"} => op.err

\* C19: insert_new_line with the cursor at (y, x) on an existing row replaces
\* row y by two rows that hold its bytes [0, x) and [x, len) (an empty row
\* followed by the whole original row when x = 0); every other row keeps its
\* bytes and its order, rows.len() grows by one, n_bytes is unchanged and
\* dirty is true.
C19_InsertNewLineSplitsRow ==
    [][(op'.name = "insert_new_line" /\ cursor.y < Len(rows)) =>
        LET x == cursor.x
            y == cursor.y
            chars == rows[y + 1].chars
        IN  /\ Len(rows') = Len(rows) + 1
            /\ rows'[y + 1].chars = SubSeq(chars, 1, x)
            /\ rows'[y + 2].chars = SubSeq(chars, x + 1, Len(chars))
            /\ \A j \in 1..Len(rows) :
                   /\ j < y + 1 => rows'[j].chars = rows[j].chars
                   /\ j > y + 1 => rows'[j + 1].chars = rows[j].chars
            /\ n_bytes' = n_bytes
            /\ dirty' = TRUE
    ]_vars

\* A row of two different bytes split between them.
C19_Witness ==
    /\ op.name = "insert_new_line"
    /\ Len(rows) = 3
    /\ rows[1].chars = <<97>>
    /\ rows[2].chars = <<MlOpen>>
    /\ rows[3].chars = <<>>
    /\ cursor = [x |-> 0, y |-> 1]
    /\ n_bytes = 2
    /\ dirty

\* C20 as stated: after insert_new_line, for x = 0 and for x > 0, the cursor
\* is at column 0 of the row the operation newly created (the row it
\* inserted: at index y when x = 0, at index y + 1 when x > 0).
C20_CursorOnNewRow ==
    [][op'.name = "insert_new_line" =>
        LET position == IF cursor.x = 0 THEN cursor.y ELSE cursor.y + 1
        IN  cursor' = [x |-> 0, y |-> position]
    ]_vars

\* C20, amended: after insert_new_line at (y, x) the cursor is at column 0
\* of row y + 1. When x > 0 that is the newly created row, which holds the
\* bytes [x, len) of the split row. When x = 0 the newly created row is the
\* empty row y, above the cursor: row y + 1 is the original row with its
\* bytes, or, when y was rows.len(), the position past the last row.
C20_CursorOnNextRow ==
    [][op'.name = "insert_new_line" =>
        LET x == cursor.x
            y == cursor.y
        IN  /\ cursor' = [x |-> 0, y |-> y + 1]
            /\ x > 0 => rows'[y + 2].chars =
                            SubSeq(rows[y + 1].chars, x + 1, Len(rows[y + 1].chars))
            /\ x = 0 => /\ rows'[y + 1].chars = <<>>
                        /\ y < Len(rows) => rows'[y + 2].chars = rows[y + 1].chars
                        /\ y = Len(rows) => cursor'.y = Len(rows')
    ]_vars

\* A new line inserted at the start of a row that holds bytes: the cursor
\* is on that row, below the inserted empty row.
C20_Witness ==
    /\ op.name = "insert_new_line"
    /\ Len(rows) = 3
    /\ rows[1].chars = <<>>
    /\ rows[2].chars = <<97, MlOpen>>
    /\ rows[3].chars = <<>>
    /\ cursor = [x |-> 0, y |-> 1]

\* C21: delete_current_row with the cursor on an existing row y of a
\* document with at least two rows leaves exactly one row fewer: the rows
\* are the original rows without row y, in the same order and with the same
\* bytes, and the cursor is at column 0 of a valid position.
C21_DeleteCurrentRowRemovesRow ==
    [][(op'.name = "delete_current_row" /\ cursor.y < Len(rows)
            /\ Len(rows) >= 2) =>
        LET y == cursor.y
        IN  /\ Len(rows') = Len(rows) - 1
            /\ \A j \in 1..Len(rows') :
                   rows'[j].chars = rows[IF j <= y THEN j ELSE j + 1].chars
            /\ cursor'.x = 0
            /\ cursor'.y <= Len(rows')
    ]_vars

\* C22: delete_char at the start of the first row (y = 0, x = 0) changes
\* nothing (rows, cursor, n_bytes and dirty are unchanged); delete_char with
\* the cursor one past the last row deletes nothing (rows, n_bytes and dirty
\* unchanged) and only moves the cursor as a Left key would, to the end of
\* the last row. Neither case fails.
C22_DeleteCharWithoutEffect ==
    [][op'.name = "delete_char" =>
        /\ (cursor = [x |-> 0, y |-> 0] /\ Len(rows) >= 1) =>
               /\ rows' = rows
               /\ cursor' = cursor
               /\ n_bytes' = n_bytes
               /\ dirty' = dirty
               /\ ~op'.err
        /\ (cursor.y = Len(rows) /\ Len(rows) >= 1) =>
               /\ rows' = rows
               /\ n_bytes' = n_bytes
               /\ dirty' = dirty
               /\ cursor' = MoveCursorOp(Ed, "Left").cursor
               /\ cursor' = [x |-> Len(rows[Len(rows)].chars), y |-> Len(rows) - 1]
               /\ ~op'.err
    ]_vars

\* A delete_char past the last row of the loaded file "a{", not modified
\* so far: the cursor is on the last row, the empty one, which no merge has
\* touched.
C22_Witness ==
    /\ op.name = "delete_char"
    /\ ~upd.called
    /\ ~dirty
    /\ Len(rows) = 2
    /\ rows[1].chars = <<97, MlOpen>>
    /\ rows[2].chars = <<>>
    /\ cursor = [x |-> 0, y |-> 1]

\* C25: move_cursor. Left at x = 0 on row y > 0 moves to the end of row
\* y - 1 and Left at (0, 0) does nothing; Right at the end of an existing row
\* moves to (y + 1, 0) and Right past the last row does nothing; Left and
\* Right inside a row move x by the byte size of one character; Up and Down
\* change y by one (Up never below 0, Down never beyond rows.len()) and then
\* x becomes min(x, length of the target row), 0 past the last row.
C25_MoveCursor ==
    [][op'.name = "move_cursor" =>
        LET x == cursor.x
            y == cursor.y
            len == Len(rows)
            \* the byte length of row r (0-based), 0 past the last row
            RowLen(r) == IF r < len THEN Len(rows[r + 1].chars) ELSE 0
            chars == rows[y + 1].chars
        IN  /\ rows' = rows
            /\ op'.akey = "Left" =>
                   IF x > 0
                   THEN cursor' = [x |-> x - GetCharSize(chars, x - 1), y |-> y]
                   ELSE IF y > 0
                   THEN cursor' = [x |-> RowLen(y - 1), y |-> y - 1]
                   ELSE cursor' = cursor
            /\ op'.akey = "Right" =>
                   IF y >= len THEN cursor' = cursor
                   ELSE IF x < RowLen(y)
                   THEN cursor' = [x |-> x + GetCharSize(chars, x), y |-> y]
                   ELSE cursor' = [x |-> 0, y |-> y + 1]
            /\ op'.akey = "Up" =>
                   LET target == IF y > 0 THEN y - 1 ELSE 0
                   IN  cursor' = [x |-> Min(x, RowLen(target)), y |-> target]
            /\ op'.akey = "Down" =>
                   LET target == IF y < len THEN y + 1 ELSE len
                   IN  cursor' = [x |-> Min(x, RowLen(target)), y |-> target]
    ]_vars

\* A Left key at the start of a row that took the cursor to the end of the
\* row above, which holds bytes.
C25_Witness ==
    /\ op.name = "move_cursor"
    /\ op.akey = "Left"
    /\ Len(rows) >= 2
    /\ cursor.y = 0
    /\ cursor.x >= 1
    /\ cursor.x = Len(rows[1].chars)

\* The bytes of the rows, row by row.
CharsOf(rs) == [j \in 1..Len(rs) |-> rs[j].chars]

\* C26: the dirty flag never under-reports a modification: whenever an edit
\* operation (insert_byte, insert_new_line, delete_char, delete_current_row,
\* duplicate_current_row) changes the bytes of a row or the number of rows,
\* dirty is true afterwards, except after a delete_char that leaves a
\* document without a file name fully empty.
C26_DirtyAfterModification ==
    [][(/\ op'.name \in {"insert_byte", "insert_new_line", "delete_char",
                         "delete_current_row", "duplicate_current_row"}
        /\ CharsOf(rows') /= CharsOf(rows)) =>
        \/ dirty'
        \/ /\ op'.name = "delete_char"
           /\ ~file_name'
           /\ Len(rows') <= 1
           /\ SumLens(rows') = 0
    ]_vars

-----------------------------------------------------------------------------
(* Properties of scroll.                                                   *)

\* C15: after scroll(rx, screen_rows, screen_cols) with screen_rows >= 1 and
\* screen_cols >= 1, for every prior roff, coff, y and rx,
\* roff <= y <= roff + screen_rows - 1 and coff <= rx <= coff + screen_cols - 1;
\* scroll leaves roff (coff) unchanged when y (rx) was already inside the
\* window, and applying it a second time changes nothing.
C15_ScrollShowsCursor ==
    [][(arg'.fn = "scroll" /\ arg'.screen_rows >= 1 /\ arg'.screen_cols >= 1) =>
        LET y == cursor.y
            rx == arg'.rx
            screen_rows == arg'.screen_rows
            screen_cols == arg'.screen_cols
            after == [y |-> y, roff |-> roff', coff |-> coff']
        IN  /\ roff' <= y /\ y <= roff' + screen_rows - 1
            /\ coff' <= rx /\ rx <= coff' + screen_cols - 1
            /\ (roff <= y /\ y <= roff + screen_rows - 1) => roff' = roff
            /\ (coff <= rx /\ rx <= coff + screen_cols - 1) => coff' = coff
            /\ ScrollOp(after, rx, screen_rows, screen_cols) = after
    ]_vars

\* The cursor on the last row and the last column of a window that scroll
\* had to move down and to the right.
C15_Witness ==
    /\ arg.fn = "scroll"
    /\ arg.screen_rows = 2
    /\ arg.screen_cols = 3
    /\ cursor.y = MaxCoord
    /\ roff = MaxCoord - 1
    /\ arg.rx = MaxCoord
    /\ coff = MaxCoord - 2

-----------------------------------------------------------------------------
(* Properties of the key-wait loop and the resize flag.                    *)

\* The editor holds the size of the terminal and the screen shows it.
SizeIsCurrent ==
    /\ editor_screen_rows = UpdateWindowSizeOp(term_rows)
    /\ drawn_rows = editor_screen_rows

\* C23: a resize notification is never lost. Once set, the flag stays set
\* until the key-wait loop reads and clears it at the start of an iteration,
\* and on that iteration the window size is updated and the screen refreshed
\* before the first byte of a key is read; so whenever the flag is clear and
\* the loop is not handling a notification, the editor holds the size of the
\* terminal and the screen shows it. As the reads return, with or without a
\* byte, a flag that is set is cleared and handled eventually, even if no
\* key is ever pressed, for as long as the loop runs (it ends when one of its
\* calls returns an error or a key ends the editor).
C23_ResizeIsNeverLost ==
    /\ []((~wsc /\ pc \notin {"update", "refresh", "ended"}) => SizeIsCurrent)
    /\ [][(wsc /\ ~wsc') => (pc = "check" /\ pc' = "update")]_vars
    /\ [][(pc' = "first" /\ pc /= "first") =>
              \/ pc = "check" /\ ~wsc
              \/ /\ pc = "refresh"
                 /\ drawn_rows' = editor_screen_rows
                 /\ wsc' \/ SizeIsCurrent']_vars
    /\ (wsc ~> (~wsc \/ pc = "ended"))
    /\ ((pc = "update") ~> (pc \in {"first", "ended"}))

\* The loop has cleared the flag and taken the new size, which the screen
\* does not show yet, and a notification for yet another size has arrived
\* since: the flag is set again.
C23_Witness ==
    /\ pc = "refresh"
    /\ wsc
    /\ drawn_rows /= editor_screen_rows
    /\ editor_screen_rows /= UpdateWindowSizeOp(term_rows)

-----------------------------------------------------------------------------
(* Properties of format_size.                                              *)

\* C18: for every u64 n, format_size(n) is "<n>B" when n < 1024, and
\* otherwise n / 1024^i rounded down to two decimals, followed by the unit
\* letter of i (k, M, G, T, P, E) and "B", where i >= 1 is the largest
\* exponent with 1024^i <= n; no intermediate operation overflows 64 bits.
C18_FormatSize ==
    out.called =>
        LET n == arg.n
            top == TopDigit(n, 7)
            \* the largest i with 1024^i <= n
            i == top - 1
            \* n = whole * 1024^i + rest, rest < 1024^i
            whole == n[top]
            rest == SubSeq(n, 1, i)
            \* the integer part of 100 * rest / 1024^i
            hundredths == MulDigits(100, rest, 0)[i + 1]
        IN  /\ ~out.panic
            /\ ~out.overflow
            /\ out.text =
                   IF top <= 1 THEN Dec(n[1]) \o <<"B">>
                   ELSE Dec(whole) \o <<".">> \o Dec02(hundredths)
                            \o <<(<<"k", "M", "G", "T", "P", "E">>)[i], "B">>

-----------------------------------------------------------------------------
(* Properties of the load/save round trip.                                 *)

\* C2: loading a byte string and saving it with no edit in between writes
\* exactly that byte string, with or without a trailing line terminator.
C2_LoadThenSaveWritesTheInput ==
    written /= NoWrite => written = input

\* The positions of the line terminators of b, and the k-th of them
\* (0 for k = 0, one past the end of b when there is none).
NLPositions(b) == {i \in 1..Len(b) : b[i] = NL}
NthNL(b, k) ==
    IF k = 0 THEN 0
    ELSE IF k > Cardinality(NLPositions(b)) THEN Len(b) + 1
    ELSE CHOOSE i \in NLPositions(b) :
             Cardinality({q \in NLPositions(b) : q < i}) = k - 1

\* C3: load creates one row per terminator-separated line of the input, and
\* one more, empty, row exactly when the input is empty or ends with the
\* terminator; row j holds the bytes between the (j-1)-th and the j-th
\* terminator.
C3_LoadSplitsOnTerminator ==
    op.name = "load" =>
        LET b == input
            ends == b = <<>> \/ b[Len(b)] = NL
            lines == Cardinality(NLPositions(b)) + (IF ends THEN 0 ELSE 1)
        IN  /\ Len(rows) = lines + (IF ends THEN 1 ELSE 0)
            /\ ends => rows[Len(rows)].chars = <<>>
            /\ \A j \in 1..Len(rows) :
                   rows[j].chars = SubSeq(b, NthNL(b, j - 1) + 1, NthNL(b, j) - 1)

-----------------------------------------------------------------------------
(* Properties of the decoder.                                              *)

IsPrefix(p, s) == Len(p) <= Len(s) /\ SubSeq(s, 1, Len(p)) = p

\* The input of the last call, from the iteration that returned on.
Pending == consumed \o stream

\* The call has returned from the match on the bytes it read: with a key or
\* with the error of a read.
Decoded == key /= NoKey /\ key /= ResizeError

\* The unmodified sequences and their keys.
UnmodifiedKeys ==
    { <<<<ESC, LBracket, ChA>>, Arrow("Up")>>,
      <<<<ESC, LBracket, ChB>>, Arrow("Down")>>,
      <<<<ESC, LBracket, ChC>>, Arrow("Right")>>,
      <<<<ESC, LBracket, ChD>>, Arrow("Left")>>,
      <<<<ESC, LBracket, ChH>>, Home>>,
      <<<<ESC, BigO, ChH>>, Home>>,
      <<<<ESC, LBracket, ChF>>, End>>,
      <<<<ESC, BigO, ChF>>, End>>,
      <<<<ESC, LBracket, Digit3, Tilde>>, Delete>>,
      <<<<ESC, LBracket, Digit1, Tilde>>, Home>>,
      <<<<ESC, LBracket, Digit7, Tilde>>, Home>>,
      <<<<ESC, LBracket, Digit4, Tilde>>, End>>,
      <<<<ESC, LBracket, Digit8, Tilde>>, End>>,
      <<<<ESC, LBracket, Digit5, Tilde>>, Page("Up")>>,
      <<<<ESC, LBracket, Digit6, Tilde>>, Page("Down")>>,
      <<<<ESC, BigO, SmallA>>, CtrlArrow("Up")>>,
      <<<<ESC, BigO, SmallB>>, CtrlArrow("Down")>>,
      <<<<ESC, BigO, SmallC>>, CtrlArrow("Right")>>,
      <<<<ESC, BigO, SmallD>>, CtrlArrow("Left")>> }

\* C6: a call whose input starts with a recognized unmodified sequence reads
\* exactly that sequence and returns its key, and a call whose input starts
\* with a byte other than ESC returns Char of that byte.
C6_UnmodifiedSequences ==
    Decoded =>
        /\ \A e \in UnmodifiedKeys :
               IsPrefix(e[1], Pending) => key = e[2] /\ consumed = e[1]
        /\ (Pending[1] < NoByte /\ Pending[1] /= ESC) =>
               key = Char(Pending[1]) /\ consumed = <<Pending[1]>>

\* ESC [ 6 ~ was decoded as PageDown.
C6_Witness ==
    /\ key = Page("Down")
    /\ consumed = <<ESC, LBracket, Digit6, Tilde>>

ArrowLetters == {<<ChA, "Up">>, <<ChB, "Down">>, <<ChC, "Right">>, <<ChD, "Left">>}

\* C7, as claimed: ESC [ <digit> ; 5 <letter> gives, in one call, the Ctrl
\* variant of the arrow of the letter, whatever the leading digit.
C7_AnyLeadingDigit ==
    Decoded =>
        \A c \in Digits \ {57} : \A l \in ArrowLetters :
            IsPrefix(<<ESC, LBracket, c, Semicolon, Digit5, l[1]>>, Pending) =>
                /\ key = CtrlArrow(l[2])
                /\ Len(consumed) = 6

\* C7, amended: ESC [ 1 ; 5 <letter> gives, in one call that reads all six
\* bytes, the Ctrl variant of the arrow of the letter; with any other
\* leading digit the call returns Escape once it has read the ';' (or the
\* digit, for '9'), and leaves the bytes after it in the input.
C7_LeadingDigitOne ==
    Decoded =>
        /\ \A l \in ArrowLetters :
               IsPrefix(<<ESC, LBracket, Digit1, Semicolon, Digit5, l[1]>>, Pending) =>
                   /\ key = CtrlArrow(l[2])
                   /\ Len(consumed) = 6
        /\ \A c \in Digits \ {Digit1} :
               IsPrefix(<<ESC, LBracket, c, Semicolon>>, Pending) =>
                   /\ key = Escape
                   /\ Len(consumed) = (IF c = 57 THEN 3 ELSE 4)

\* ESC [ 1 ; 5 A was decoded as Ctrl-Up.
C7_Witness ==
    /\ key = CtrlArrow("Up")
    /\ consumed = <<ESC, LBracket, Digit1, Semicolon, Digit5, ChA>>

\* The pairs (c, d) the arm for ESC [ <digit> gives a key to.
RecognizedPairs ==
    {<<c, Tilde>> : c \in {Digit1, Digit3, Digit4, Digit5, Digit6, Digit7, Digit8}}
        \cup {<<Digit5, l>> : l \in {ChA, ChB, ChC, ChD}}

\* Every sequence the decoder gives a key other than Escape to.
RecognizedSequences ==
    {e[1] : e \in UnmodifiedKeys}
        \cup {<<ESC, LBracket, p[1], p[2]>> : p \in RecognizedPairs}
        \cup {<<ESC, LBracket, Digit1, Semicolon, p[1], p[2]>> : p \in RecognizedPairs}

\* C24: the default modifier 1 is transparent: for every code byte c in
\* '0'..'8' and every final byte d with (c, d) different from ('1', ';'),
\* decoding ESC [ 1 ; c d returns the same key as decoding ESC [ c d; so
\* ESC [ 1 ; 5 C gives Ctrl-Right and ESC [ 1 ; 3 ~ gives Delete.
C24_ModifierOneIsTransparent ==
    (/\ Decoded
     /\ Len(consumed) = 6
     /\ SubSeq(consumed, 1, 4) = <<ESC, LBracket, Digit1, Semicolon>>
     /\ consumed[5] \in Digit0..Digit8
     /\ consumed[6] < NoByte
     /\ <<consumed[5], consumed[6]>> /= <<Digit1, Semicolon>>) =>
        LET c == consumed[5]
            d == consumed[6]
        IN  /\ key = LoopFrom(<<ESC, LBracket, c, d>>, 1).key
            /\ (c = Digit5 /\ d = ChC) => key = CtrlArrow("Right")
            /\ (c = Digit3 /\ d = Tilde) => key = Delete

\* ESC [ 1 ; 5 C decoded in one call.
C24_Witness ==
    /\ key = CtrlArrow("Right")
    /\ consumed = <<ESC, LBracket, Digit1, Semicolon, Digit5, ChC>>

\* C8: a call whose input starts with ESC and with no recognized sequence
\* returns Escape, unless one of its reads fails; and the match on the
\* bytes returns an error only when its last read failed: no byte makes it
\* return one. (The other error a call returns is that of the handling of
\* a resize, which comes before the iteration has read any byte.)
C8_UnrecognizedIsEscape ==
    /\ Decoded =>
           /\ ( /\ consumed[1] = ESC
                /\ \A i \in 1..Len(consumed) : consumed[i] /= ReadError
                /\ \A q \in RecognizedSequences : ~IsPrefix(q, Pending) )
              => key = Escape
           /\ key = KeyError <=> consumed[Len(consumed)] = ReadError
    /\ key = ResizeError =>
           \A i \in 1..Len(consumed) : consumed[i] = NoByte

\* ESC [ Z was decoded as Escape.
C8_Witness ==
    /\ key = Escape
    /\ consumed = <<ESC, LBracket, 90>>

\* The sequences that are one key: those of the decoder's list of shapes,
\* with one or two digits, and modifier 1 or 5.
OneKeySequences ==
    {e[1] : e \in UnmodifiedKeys}
        \cup {<<ESC, LBracket, c, Tilde>> : c \in Digits}
        \cup {<<ESC, LBracket, c, c2, Tilde>> : c \in {Digit1, Digit5}, c2 \in Digits}
        \cup {<<ESC, LBracket, c, Semicolon, m, l>> :
                  c \in Digits, m \in {Digit1, Digit5}, l \in {ChA, ChB, ChC, ChD}}

\* C9: a call consumes exactly the bytes of the one key it returns: when
\* the input starts with the sequence of one key, the call reads that
\* sequence, no less (leaving bytes of it to later calls) and no more.
C9_CallConsumesOneKey ==
    Decoded =>
        \A g \in OneKeySequences : IsPrefix(g, Pending) => consumed = g

====
